---- MODULE Spec2Model ----
(***************************************************************************)
(* State machine of claraG_direto.py: the inbound-message handler with its *)
(* dispatch flags, the job queue with the three funnel jobs (combo         *)
(* delivery, upsell, group-membership polling with remarketing), and the   *)
(* delivery layer's send wrappers.  Every await of the source is a         *)
(* suspension point: a handler or job execution is one action from one     *)
(* await to the next.                                                      *)
(***************************************************************************)
EXTENDS Integers, Sequences, FiniteSets, TLC

\* ------------------------------------------------------------------ bounds
\* inbound updates delivered per conversation
MaxMsgs == 2
\* BEATRIZ_COMBO_FOTO_i slots considered (the source has 10, lines 317-326)
MaxPhotoSlots == 3
\* BEATRIZ_COMBO_VIDEO_i slots considered (the source has 4, lines 328-331)
MaxVideoSlots == 2
\* data["attempt"] is unbounded in the source; the model saturates it here,
\* above GROUP_CHECK_MAX_ATTEMPTS, which keeps every comparison of the code
AttemptCap == 6
\* job runs of one conversation that end by an exception
MaxRaises == 1

\* --------------------------------------------------------- program constants
GROUP_CHECK_MAX_ATTEMPTS == 5

\* chat ids of the private conversations; in a private chat user.id = chat.id
Chats == {101, 102}
\* Python None for an id (falsy, like 0) and for business_connection_id
NoId == 0
NoBcid == "None"
Bcids == {NoBcid, "bc"}

JobFns == {"_combo_delivery_beatriz_job", "_upsell_sequence_job", "_group_check_job"}

\* what a gateway call can do: return, raise Forbidden, raise BadRequest, or
\* raise any other exception (TimedOut, NetworkError, ...)
Outcome == {"ok", "Forbidden", "BadRequest", "Other"}

VARIABLES
    job_queue,               \* context.job_queue is available in this process
    quota,                   \* per chat, the updates it sends in this run
    assets,                  \* the content assets read from the environment
    chat_data,               \* context.chat_data of each chat
    COMBO_DISPATCHED_CHATS,  \* the process-wide set
    handlers,                \* handle_text_message executions suspended in sleep
    jobs,                    \* the job queue: scheduled and running jobs
    sent,                    \* per chat, the outbound calls made, in order
    inbound,                 \* per chat, updates handled so far
    eligible,                \* per chat, private messages of non-bot senders handled
    admitted,                \* per chat, handler executions that passed the guard
    nsched,                  \* per chat and job function, run_once/run_repeating calls
    done,                    \* per chat and job function, runs that completed
    last,                    \* per chat, how its latest awaited send ended
    nones,                   \* per chat, sends that returned None so far
    raised,                  \* per chat and job function, runs that raised
    voice,                   \* one call of _safe_send_voice_prefer (VoiceSpec)
    member                   \* one answer of get_chat_member (MemberSpec)

vars == <<job_queue, quota, assets, chat_data, COMBO_DISPATCHED_CHATS, handlers, jobs,
          sent, inbound, eligible, admitted, nsched, done, last, nones, raised,
          voice, member>>

config == <<job_queue, quota, assets>>
guard == <<chat_data, COMBO_DISPATCHED_CHATS>>
history == <<inbound, eligible, admitted>>
outcomes == <<last, nones>>

\* ------------------------------------------------------------ delivery layer

\* the except clause catching Forbidden alone: BadRequest propagates
safe_send_forbidden_only(o) ==
    CASE o = "ok" -> "Message"
      [] o = "Forbidden" -> "None"
      [] OTHER -> "raised"

\* _safe_send_message / _photo / _video / _audio / _media_group: the message
\* on success, None on Forbidden or BadRequest, anything else propagates
safe_send(o) ==
    CASE o = "ok" -> "Message"
      [] o \in {"Forbidden", "BadRequest"} -> "None"
      [] OTHER -> "raised"

\* what bot.get_file can do: a file with a path, a file without one, or raise
FileOutcome == {"path", "no_path", "Forbidden", "BadRequest", "Other"}

\* _safe_send_voice_prefer, level (b): with a str handle, resolve it and, when
\* it has a file_path, send the voice once more by URL; every exception of
\* this level is swallowed
voice_url_retry(isStr, oFile, o2) ==
    IF ~isStr THEN [calls |-> <<>>, returned |-> FALSE]
    ELSE IF oFile # "path" THEN [calls |-> <<"get_file">>, returned |-> FALSE]
    ELSE [calls |-> <<"get_file", "send_voice_url">>, returned |-> (o2 = "ok")]

\* level (c) without its except clause: a rejected audio send propagates
voice_audio_fallback_unguarded(o3) ==
    [calls |-> <<"send_audio">>,
     result |-> IF o3 = "ok" THEN "Message" ELSE "raised"]

\* _safe_send_voice_prefer, level (c): the same content as a generic audio
voice_audio_fallback(o3) ==
    [calls |-> <<"send_audio">>, result |-> safe_send(o3)]

\* _safe_send_voice_prefer: the gateway calls made, in order, what the call
\* gives back ("Message", "None" or "raised"), the level that decided it and
\* what the gateway did at that level
safe_send_voice_prefer(isStr, o1, oFile, o2, o3) ==
    IF o1 = "ok"
    THEN [calls |-> <<"send_voice">>, result |-> "Message", by |-> "send_voice",
          outcome |-> o1]
    ELSE IF o1 \notin {"Forbidden", "BadRequest"}
    THEN [calls |-> <<"send_voice">>, result |-> "raised", by |-> "send_voice",
          outcome |-> o1]
    ELSE LET b == voice_url_retry(isStr, oFile, o2)
             c == voice_audio_fallback(o3)
         IN  IF b.returned
             THEN [calls |-> <<"send_voice">> \o b.calls,
                   result |-> "Message", by |-> "send_voice_url",
                   outcome |-> o2]
             ELSE [calls |-> <<"send_voice">> \o b.calls \o c.calls,
                   result |-> c.result, by |-> "send_audio", outcome |-> o3]

\* how an awaited send ended: what the gateway did and what the wrapper
\* gave back
Return(outcome, result) == [outcome |-> outcome, result |-> result]

\* every way a voice-preferring send of a configured asset (a str) can end
VoiceReturns ==
    {Return(safe_send_voice_prefer(TRUE, o1, oFile, o2, o3).outcome,
            safe_send_voice_prefer(TRUE, o1, oFile, o2, o3).result) :
        o1 \in Outcome, oFile \in FileOutcome, o2 \in Outcome, o3 \in Outcome}

\* _safe_reply_text: reply_text, and on a TypeError a direct send_message whose
\* every exception is swallowed
ReplyOutcome == Outcome \cup {"TypeError"}

safe_reply_text(o1, o2) ==
    IF o1 = "TypeError"
    THEN [calls |-> <<"reply_text", "send_message">>,
          result |-> IF o2 = "ok" THEN "Message" ELSE "None"]
    ELSE [calls |-> <<"reply_text">>, result |-> safe_send(o1)]

\* ------------------------------------------------------------------- assets

\* an asset is configured when its environment value is a non-empty string
AssetConfigs ==
    [AUDIO_ENTREGA_COMBO : BOOLEAN,
     photos : SUBSET (1..MaxPhotoSlots),
     videos : SUBSET (1..MaxVideoSlots),
     AUDIO_POS_ENTREGA_COMBO : BOOLEAN,
     AUDIO_OFERTANDO_UPSELL : BOOLEAN,
     VIDEO_PREVIA_VIP : BOOLEAN,
     AUDIO_REMARKETING_UPSELL : BOOLEAN,
     AUDIO_REMARKETING_UPSELL_2 : BOOLEAN]

\* every asset unset (b false) or every asset set (b true)
AllAssets(b) ==
    [AUDIO_ENTREGA_COMBO |-> b,
     photos |-> IF b THEN 1..MaxPhotoSlots ELSE {},
     videos |-> IF b THEN 1..MaxVideoSlots ELSE {},
     AUDIO_POS_ENTREGA_COMBO |-> b,
     AUDIO_OFERTANDO_UPSELL |-> b,
     VIDEO_PREVIA_VIP |-> b,
     AUDIO_REMARKETING_UPSELL |-> b,
     AUDIO_REMARKETING_UPSELL_2 |-> b]

FunnelConfigs == {AllAssets(b) : b \in BOOLEAN}

\* [x for x in ids if x]: the configured slots among 1..n, in slot order
RECURSIVE Configured(_, _)
Configured(slots, n) ==
    IF n = 0 THEN <<>>
    ELSE Configured(slots, n - 1) \o (IF n \in slots THEN <<n>> ELSE <<>>)

Call(call, what, media) == [call |-> call, what |-> what, media |-> media]

\* the album threshold off by one: a single item is sent as an album too
media_batch_album_from_one(single, media) ==
    IF Len(media) >= 1 THEN <<Call("send_media_group", single, media)>>
    ELSE <<>>

\* a batch of photos or videos: an album from two items on, a single item
\* for one, nothing for none
media_batch(single, media) ==
    IF Len(media) >= 2 THEN <<Call("send_media_group", single, media)>>
    ELSE IF Len(media) = 1 THEN <<Call(single, single, media)>>
    ELSE <<>>

\* the combo job scheduling the upsell before its closing step, which is
\* then never awaited
ComboSteps_without_closing(a) ==
    <<Call("send_message", "apology", <<>>)>>
    \o (IF a.AUDIO_ENTREGA_COMBO
        THEN <<Call("voice_prefer", "AUDIO_ENTREGA_COMBO", <<>>)>> ELSE <<>>)
    \o media_batch("send_photo", Configured(a.photos, MaxPhotoSlots))
    \o media_batch("send_video", Configured(a.videos, MaxVideoSlots))

\* the combo job with its two media batches in the other order
ComboSteps_videos_first(a) ==
    <<Call("send_message", "apology", <<>>)>>
    \o (IF a.AUDIO_ENTREGA_COMBO
        THEN <<Call("voice_prefer", "AUDIO_ENTREGA_COMBO", <<>>)>> ELSE <<>>)
    \o media_batch("send_video", Configured(a.videos, MaxVideoSlots))
    \o media_batch("send_photo", Configured(a.photos, MaxPhotoSlots))
    \o (IF a.AUDIO_POS_ENTREGA_COMBO
        THEN <<Call("voice_prefer", "AUDIO_POS_ENTREGA_COMBO", <<>>)>>
        ELSE <<Call("send_message", "closing", <<>>)>>)

\* the awaited calls of _combo_delivery_beatriz_job, in order
ComboSteps(a) ==
    <<Call("send_message", "apology", <<>>)>>
    \o (IF a.AUDIO_ENTREGA_COMBO
        THEN <<Call("voice_prefer", "AUDIO_ENTREGA_COMBO", <<>>)>> ELSE <<>>)
    \o media_batch("send_photo", Configured(a.photos, MaxPhotoSlots))
    \o media_batch("send_video", Configured(a.videos, MaxVideoSlots))
    \o (IF a.AUDIO_POS_ENTREGA_COMBO
        THEN <<Call("voice_prefer", "AUDIO_POS_ENTREGA_COMBO", <<>>)>>
        ELSE <<Call("send_message", "closing", <<>>)>>)

\* the awaited calls of _upsell_sequence_job, in order
UpsellSteps(a) ==
    (IF a.AUDIO_OFERTANDO_UPSELL
     THEN <<Call("voice_prefer", "AUDIO_OFERTANDO_UPSELL", <<>>)>> ELSE <<>>)
    \o (IF a.VIDEO_PREVIA_VIP
        THEN <<Call("send_video", "VIDEO_PREVIA_VIP", <<>>)>> ELSE <<>>)
    \o <<Call("send_message", "upsell_text", <<>>),
         Call("send_message", "vip_keyboard", <<>>)>>

\* _send_remarketing ending at its text: the pause and the second audio left
\* to a job of the queue that the removal has already cancelled
RemarketingSteps_ending_at_text(a) ==
    (IF a.AUDIO_REMARKETING_UPSELL
     THEN <<Call("voice_prefer", "AUDIO_REMARKETING_UPSELL", <<>>)>> ELSE <<>>)
    \o <<Call("send_message", "remarketing_text", <<>>)>>

\* the awaits of _send_remarketing, in order
RemarketingSteps(a) ==
    (IF a.AUDIO_REMARKETING_UPSELL
     THEN <<Call("voice_prefer", "AUDIO_REMARKETING_UPSELL", <<>>)>> ELSE <<>>)
    \o <<Call("send_message", "remarketing_text", <<>>)>>
    \o (IF a.AUDIO_REMARKETING_UPSELL_2
        THEN <<Call("sleep", "45", <<>>),
               Call("voice_prefer", "AUDIO_REMARKETING_UPSELL_2", <<>>)>>
        ELSE <<>>)

\* every way one awaited call of a job can end
StepReturns(step) ==
    IF step.call = "voice_prefer" THEN VoiceReturns
    ELSE IF step.call = "sleep" THEN {Return("ok", "Message")}
    ELSE {Return(o, safe_send(o)) : o \in Outcome}

\* the runs of conversation c that raised so far
Raises(c) ==
    raised[c]["_combo_delivery_beatriz_job"] + raised[c]["_upsell_sequence_job"]
        + raised[c]["_group_check_job"]

\* ------------------------------------------------------------------- updates

\* an inbound update of conversation c as handle_text_message reads it:
\* effective_message and effective_chat present or not, the chat type, the
\* sender (none, a user, a bot), the message's business_connection_id
Updates(c) ==
    [origin : {c}, message : BOOLEAN, chat : BOOLEAN,
     chat_type : {"private", "group"}, from_user : {"None", "user", "bot"},
     business_connection_id : Bcids]

\* the early returns without the test of the sender: a bot's message goes on
\* to the dispatch guard
ignored_unless_bot(u) ==
    \/ ~u.message
    \/ ~u.chat
    \/ u.chat_type # "private"

\* the early returns of handle_text_message before the dispatch guard
ignored(u) ==
    \/ ~u.message
    \/ ~u.chat
    \/ u.from_user = "bot"
    \/ u.chat_type # "private"

\* user.id if user else None
user_id_of(u) == IF u.from_user = "None" THEN NoId ELSE u.origin

\* the guard reading a key that no message ever writes
already_dispatched_unwritten_key(c) ==
    chat_data[c].business_connection_id = "combo_dispatched"

\* bool(chat_data.get("combo_dispatched")) or chat_id in COMBO_DISPATCHED_CHATS
already_dispatched(c) ==
    chat_data[c].combo_dispatched \/ c \in COMBO_DISPATCHED_CHATS

\* chat_data["combo_dispatched"] = True, and the business connection id is
\* kept when the message carries one
dispatched_chat_data(cd, bcid) ==
    [combo_dispatched |-> TRUE,
     business_connection_id |->
        IF bcid # NoBcid THEN bcid ELSE cd.business_connection_id]

\* the flags written only after the handler's await: nothing is written in the
\* step that read them
mark_dispatched_after_await(c, bcid) ==
    UNCHANGED guard

\* the guard writing the per-conversation flag only, the process-wide set
\* left as it was
mark_dispatched_chat_data_only(c, bcid) ==
    /\ chat_data' = [chat_data EXCEPT ![c] = dispatched_chat_data(@, bcid)]
    /\ UNCHANGED COMBO_DISPATCHED_CHATS

\* the guard's writes, made in the step that read the flags: both flags are
\* set before the handler reaches any await
mark_dispatched(c, bcid) ==
    /\ chat_data' = [chat_data EXCEPT ![c] = dispatched_chat_data(@, bcid)]
    /\ COMBO_DISPATCHED_CHATS' = COMBO_DISPATCHED_CHATS \cup {c}

\* ---------------------------------------------------------------- job queue

\* a job as run_once / run_repeating creates it: its callback, its data, and
\* where its current run stands (at "wait": not running; "call": awaiting
\* the step-th send; "query", "approve": awaits of _group_check_job).
\* mid is the message that admitted the conversation (part of the combo
\* job's name); answer is how the latest get_chat_member of the job ended;
\* removed is schedule_removal() having been called.
NewJob(fn, chat_id, user_id, bcid, mid) ==
    [fn |-> fn, chat_id |-> chat_id, user_id |-> user_id,
     business_connection_id |-> bcid, attempt |-> 0, mid |-> mid,
     at |-> "wait", step |-> 0, answer |-> "-", removed |-> FALSE]

\* conversation c is in the pause of _send_remarketing: the run that removed
\* its polling job is suspended in asyncio.sleep(45)
Pausing(c) ==
    \E j \in jobs :
        /\ j.chat_id = c /\ j.removed /\ j.at = "call"
        /\ RemarketingSteps(assets)[j.step].call = "sleep"

\* the record of one outbound call in the chat's log; paused is the other
\* conversations that are in their remarketing pause when the call returns
Sent(j, step) ==
    [call |-> step.call, what |-> step.what, media |-> step.media,
     business_connection_id |-> j.business_connection_id, by |-> j.fn,
     paused |-> {c \in Chats \ {j.chat_id} : Pausing(c)}]

\* the job when its current awaited call returned
Advance(j) == [j EXCEPT !.step = @ + 1]

\* the latest return of chat c and its count of empty results
Returned(c, r) ==
    /\ last' = [last EXCEPT ![c] = r]
    /\ nones' = [nones EXCEPT ![c] = @ + (IF r.result = "None" THEN 1 ELSE 0)]

\* the upsell job scheduled without the business connection id of the payload
combo_followup_without_bcid(j) ==
    IF job_queue
    THEN {NewJob("_upsell_sequence_job", j.chat_id, j.user_id, NoBcid, j.mid)}
    ELSE {}

\* jobq.run_once(_upsell_sequence_job, ...) at the end of the combo job
combo_followup(j) ==
    IF job_queue
    THEN {NewJob("_upsell_sequence_job", j.chat_id, j.user_id,
                 j.business_connection_id, j.mid)}
    ELSE {}

\* run_once given the combo callback again where the polling job is meant
upsell_followup_requeues_combo(j) ==
    IF job_queue /\ j.user_id # NoId
    THEN {NewJob("_combo_delivery_beatriz_job", j.chat_id, j.user_id,
                 j.business_connection_id, j.mid)}
    ELSE {}

\* the polling job keyed by one chat id for every conversation
upsell_followup_one_key(j) ==
    IF job_queue /\ j.user_id # NoId
    THEN {NewJob("_group_check_job", CHOOSE c \in Chats : TRUE, j.user_id,
                 j.business_connection_id, j.mid)}
    ELSE {}

\* the polling job started without the test of user_id
upsell_followup_any_user(j) ==
    IF job_queue
    THEN {NewJob("_group_check_job", j.chat_id, j.user_id,
                 j.business_connection_id, j.mid)}
    ELSE {}

\* jobq.run_repeating(_group_check_job, ...) at the end of the upsell job
upsell_followup(j) ==
    IF job_queue /\ j.user_id # NoId
    THEN {NewJob("_group_check_job", j.chat_id, j.user_id,
                 j.business_connection_id, j.mid)}
    ELSE {}

Scheduled(ns, c, new) ==
    [ns EXCEPT ![c] = [f \in JobFns |->
        @[f] + Cardinality({n \in new : n.fn = f})]]

\* the scheduler invokes a one-shot job: the callback runs to its first await
\* (it returns at once when its data has no chat_id)
job_invoke(j) ==
    /\ j.at = "wait"
    /\ jobs' = IF j.chat_id = NoId THEN jobs \ {j}
               ELSE (jobs \ {j}) \cup {[j EXCEPT !.at = "call", !.step = 1]}
    /\ UNCHANGED <<config, guard, handlers, sent, history, nsched, done,
                   outcomes, raised, voice, member>>

\* the awaited call of a running job returns: the call is logged; an
\* exception ends the run; otherwise the run goes on to its next await, or,
\* after its last one, schedules what follows and ends
job_step(j, steps, followup) ==
    LET c == j.chat_id
        final == j.step = Len(steps)
    IN  /\ j.at = "call"
        /\ \E r \in StepReturns(steps[j.step]) :
            /\ r.result = "raised" => Raises(c) < MaxRaises
            /\ sent' = [sent EXCEPT ![c] = Append(@, Sent(j, steps[j.step]))]
            /\ Returned(c, r)
            /\ IF r.result = "raised"
               THEN /\ jobs' = jobs \ {j}
                    /\ raised' = [raised EXCEPT ![c][j.fn] = @ + 1]
                    /\ UNCHANGED <<done, nsched>>
               ELSE IF ~final
               THEN /\ jobs' = (jobs \ {j}) \cup {Advance(j)}
                    /\ UNCHANGED <<done, nsched, raised>>
               ELSE /\ jobs' = (jobs \ {j}) \cup followup
                    /\ done' = [done EXCEPT ![c][j.fn] = @ + 1]
                    /\ nsched' = Scheduled(nsched, c, followup)
                    /\ UNCHANGED raised
        /\ UNCHANGED <<config, guard, handlers, history, voice, member>>

combo_delivery_beatriz_job(j) ==
    /\ j.fn = "_combo_delivery_beatriz_job"
    /\ \/ job_invoke(j)
       \/ job_step(j, ComboSteps(assets), combo_followup(j))

upsell_sequence_job(j) ==
    /\ j.fn = "_upsell_sequence_job"
    /\ \/ job_invoke(j)
       \/ job_step(j, UpsellSteps(assets), upsell_followup(j))

\* ------------------------------------------------------- membership polling

Statuses == {"creator", "administrator", "member", "restricted", "left", "kicked"}

\* what bot.get_chat_member can do: return a ChatMember (its status, and its
\* is_member attribute when it has one), or raise
MemberOutcome ==
    [kind : {"ChatMember"}, status : Statuses, is_member : BOOLEAN]
    \cup [kind : {"Forbidden", "BadRequest", "Other"}, status : {"-"},
          is_member : {FALSE}]

\* the classification by status alone: the is_member attribute is not read
is_member_by_status(m) ==
    /\ m.kind = "ChatMember"
    /\ m.status \in {"member", "administrator", "creator"}

\* status in {"member", "administrator", "creator"} or bool(member.is_member);
\* BadRequest and every other exception but Forbidden count as not a member
is_member(m) ==
    /\ m.kind = "ChatMember"
    /\ (m.status \in {"member", "administrator", "creator"} \/ m.is_member)

\* attempt = int(data.get("attempt", 0)) + 1
next_attempt(n) == IF n < AttemptCap THEN n + 1 ELSE n

\* the scheduler invokes the repeating job: the attempt is counted and stored,
\* malformed data removes the job, otherwise the membership query is awaited
group_check_invoke(j) ==
    /\ j.at = "wait"
    /\ ~j.removed
    /\ LET k == [j EXCEPT !.attempt = next_attempt(@)]
       IN  jobs' = IF j.chat_id = NoId \/ j.user_id = NoId
                   THEN jobs \ {j}
                   ELSE (jobs \ {j}) \cup {[k EXCEPT !.at = "query"]}
    /\ UNCHANGED <<config, guard, handlers, sent, history, nsched, done,
                   outcomes, raised, voice, member>>

\* the exhaustion test met one attempt early
exhausted_one_early(attempt) == attempt >= GROUP_CHECK_MAX_ATTEMPTS - 1

\* if attempt >= GROUP_CHECK_MAX_ATTEMPTS
exhausted(attempt) == attempt >= GROUP_CHECK_MAX_ATTEMPTS

\* Forbidden handled like every other exception: counted as not a member
after_query_forbidden_not_member(m, attempt) ==
    IF is_member(m) THEN "approve"
    ELSE IF exhausted(attempt) THEN "remarketing"
    ELSE "retry"

\* what a run does with the answer m of get_chat_member at the given attempt:
\* Forbidden ends the run ("return"); a member gets the approval message
\* ("approve"); otherwise, from GROUP_CHECK_MAX_ATTEMPTS on, the job is
\* removed and _send_remarketing starts ("remarketing"), and before that the
\* run just ends ("retry")
after_query(m, attempt) ==
    IF m.kind = "Forbidden" THEN "return"
    ELSE IF is_member(m) THEN "approve"
    ELSE IF exhausted(attempt) THEN "remarketing"
    ELSE "retry"

\* get_chat_member returns or raises, and the run acts on the answer
group_check_query(j) ==
    /\ j.at = "query"
    /\ \E m \in MemberOutcome :
        LET k == [j EXCEPT !.answer = m.kind]
            todo == after_query(m, j.attempt)
        IN  jobs' = (jobs \ {j}) \cup
                {IF todo = "approve" THEN [k EXCEPT !.at = "approve"]
                 ELSE IF todo = "remarketing"
                 THEN [k EXCEPT !.removed = TRUE, !.at = "call", !.step = 1]
                 ELSE [k EXCEPT !.at = "wait"]}
    /\ UNCHANGED <<config, guard, handlers, sent, history, nsched, done,
                   outcomes, raised, voice, member>>

\* the approval message returns or raises: the job is removed after the send
\* returned; an exception of the send ends the run before the removal
group_check_approve(j) ==
    LET c == j.chat_id
    IN  /\ j.at = "approve"
        /\ \E o \in Outcome :
            /\ safe_send(o) = "raised" => Raises(c) < MaxRaises
            /\ sent' = [sent EXCEPT ![c] = Append(@,
                            Sent(j, Call("send_message", "approved", <<>>)))]
            /\ Returned(c, Return(o, safe_send(o)))
            /\ IF safe_send(o) = "raised"
               THEN /\ jobs' = (jobs \ {j}) \cup {[j EXCEPT !.at = "wait"]}
                    /\ raised' = [raised EXCEPT ![c][j.fn] = @ + 1]
                    /\ UNCHANGED done
               ELSE /\ jobs' = jobs \ {j}
                    /\ done' = [done EXCEPT ![c][j.fn] = @ + 1]
                    /\ UNCHANGED raised
        /\ UNCHANGED <<config, guard, handlers, history, nsched, voice, member>>

\* _send_remarketing, awaited inside the run that removed the job
send_remarketing(j) ==
    /\ j.removed
    /\ job_step(j, RemarketingSteps(assets), {})

group_check_job(j) ==
    /\ j.fn = "_group_check_job"
    /\ \/ group_check_invoke(j)
       \/ group_check_query(j)
       \/ group_check_approve(j)
       \/ send_remarketing(j)

\* ------------------------------------------------------------------ handler

\* handle_text_message up to its first await (there is none before the
\* dispatch guard): the early returns, the guard, the flags, and either the
\* combo job or, without a job queue, the sleep before the apology
handle_text_message(u) ==
    LET c == u.origin
        mid == inbound[c] + 1
        bcid == u.business_connection_id
        job == NewJob("_combo_delivery_beatriz_job", c, user_id_of(u), bcid, mid)
    IN  /\ inbound[c] < quota[c]
        /\ inbound' = [inbound EXCEPT ![c] = mid]
        /\ eligible' = [eligible EXCEPT ![c] = @ + (IF ignored(u) THEN 0 ELSE 1)]
        /\ IF ignored(u) \/ already_dispatched(c)
           THEN UNCHANGED <<guard, handlers, jobs, admitted, nsched>>
           ELSE /\ mark_dispatched(c, bcid)
                /\ admitted' = [admitted EXCEPT ![c] = @ + 1]
                /\ IF ~job_queue
                   THEN /\ handlers' = handlers \cup {[chat_id |-> c, mid |-> mid]}
                        /\ UNCHANGED <<jobs, nsched>>
                   ELSE /\ jobs' = jobs \cup {job}
                        /\ nsched' = Scheduled(nsched, c, {job})
                        /\ UNCHANGED handlers
        /\ UNCHANGED <<config, sent, done, outcomes, raised, voice, member>>

\* handle_text_message after the sleep, without a job queue: the apology is
\* sent as a reply and the handler ends
handle_text_message_reply(h) ==
    /\ h \in handlers
    /\ handlers' = handlers \ {h}
    /\ \E o1 \in ReplyOutcome, o2 \in Outcome :
        sent' = [sent EXCEPT ![h.chat_id] = @ \o
            [i \in 1..Len(safe_reply_text(o1, o2).calls) |->
                [call |-> safe_reply_text(o1, o2).calls[i], what |-> "apology",
                 media |-> <<>>,
                 business_connection_id |->
                    chat_data[h.chat_id].business_connection_id,
                 by |-> "handle_text_message",
                 paused |-> {c \in Chats \ {h.chat_id} : Pausing(c)}]]]
    /\ UNCHANGED <<config, guard, jobs, history, nsched, done, outcomes, raised,
                   voice, member>>

\* ------------------------------------------------------------ specification

\* no membership answer under classification
MemberIdle ==
    [m |-> [kind |-> "Other", status |-> "-", is_member |-> FALSE],
     attempt |-> 0, at |-> "idle", is_member |-> FALSE, todo |-> "-"]

VoiceIdle ==
    [isStr |-> TRUE, o1 |-> "ok", oFile |-> "path", o2 |-> "ok", o3 |-> "ok",
     at |-> "idle", calls |-> <<>>, result |-> "-", by |-> "-"]

\* the process after start-up: no conversation seen, an empty job queue
InitWith(configs, writers, n) ==
    /\ job_queue \in BOOLEAN
    /\ quota = [c \in Chats |-> IF c \in writers THEN n ELSE 0]
    /\ assets \in configs
    /\ chat_data = [c \in Chats |->
            [combo_dispatched |-> FALSE, business_connection_id |-> NoBcid]]
    /\ COMBO_DISPATCHED_CHATS = {}
    /\ handlers = {}
    /\ jobs = {}
    /\ sent = [c \in Chats |-> <<>>]
    /\ inbound = [c \in Chats |-> 0]
    /\ eligible = [c \in Chats |-> 0]
    /\ admitted = [c \in Chats |-> 0]
    /\ nsched = [c \in Chats |-> [f \in JobFns |-> 0]]
    /\ done = [c \in Chats |-> [f \in JobFns |-> 0]]
    /\ last = [c \in Chats |-> Return("-", "-")]
    /\ nones = [c \in Chats |-> 0]
    /\ raised = [c \in Chats |-> [f \in JobFns |-> 0]]

\* the funnel from the first message to its end, for one conversation, with
\* no asset configured and with every asset configured
Init ==
    /\ InitWith(FunnelConfigs, {101}, MaxMsgs)
    /\ voice = VoiceIdle /\ member = MemberIdle

Next ==
    \/ \E c \in Chats : \E u \in Updates(c) : handle_text_message(u)
    \/ \E h \in handlers : handle_text_message_reply(h)
    \/ \E j \in jobs : combo_delivery_beatriz_job(j)
    \/ \E j \in jobs : upsell_sequence_job(j)
    \/ \E j \in jobs : group_check_job(j)

Spec == Init /\ [][Next]_vars

\* the scheduler invokes every due job and every awaited call returns
Fairness ==
    /\ WF_vars(\E j \in jobs : combo_delivery_beatriz_job(j))
    /\ WF_vars(\E j \in jobs : upsell_sequence_job(j))
    /\ WF_vars(\E j \in jobs : group_check_job(j))
    /\ WF_vars(\E h \in handlers : handle_text_message_reply(h))

FairSpec == Spec /\ Fairness

\* the combo delivery stage alone, started by one message, for every
\* configuration of its assets (the upsell job it schedules is not yet due)
ComboConfigs ==
    {a \in AssetConfigs :
        /\ ~a.AUDIO_OFERTANDO_UPSELL /\ ~a.VIDEO_PREVIA_VIP
        /\ ~a.AUDIO_REMARKETING_UPSELL /\ ~a.AUDIO_REMARKETING_UPSELL_2}

ComboInit ==
    /\ InitWith(ComboConfigs, {101}, 1)
    /\ job_queue
    /\ voice = VoiceIdle /\ member = MemberIdle

ComboNext ==
    \/ \E c \in Chats : \E u \in Updates(c) : handle_text_message(u)
    \/ \E j \in jobs : combo_delivery_beatriz_job(j)

ComboSpec == ComboInit /\ [][ComboNext]_vars

\* two conversations, one message each, with the second remarketing audio as
\* the only asset: the first runs its whole funnel while the second is in
\* its combo delivery (its upsell job, due VIP_OFFER_DELAY_SECONDS later, is
\* not yet due)
PauseConfigs == {[AllAssets(FALSE) EXCEPT !.AUDIO_REMARKETING_UPSELL_2 = TRUE]}

First == CHOOSE c \in Chats : \A d \in Chats : c <= d

PauseInit ==
    /\ InitWith(PauseConfigs, Chats, 1)
    /\ job_queue
    /\ voice = VoiceIdle /\ member = MemberIdle

PauseNext ==
    \/ \E c \in Chats : \E u \in Updates(c) : handle_text_message(u)
    \/ \E j \in jobs : combo_delivery_beatriz_job(j)
    \/ \E j \in jobs : j.chat_id = First /\ upsell_sequence_job(j)
    \/ \E j \in jobs : j.chat_id = First /\ group_check_job(j)

PauseSpec == PauseInit /\ [][PauseNext]_vars

\* two conversations (MaxMsgs messages of the first, one of the other) whose
\* handler executions and job runs interleave in every order (no asset
\* configured: the jobs make only the text calls)
PairInit ==
    /\ InitWith({AllAssets(FALSE)}, Chats, MaxMsgs)
    /\ job_queue
    /\ voice = VoiceIdle /\ member = MemberIdle

\* the gateway accepts or fails a call of these runs (a rejection, which
\* changes no job, is covered by Spec)
PairNext ==
    \/ \E c \in Chats : \E u \in Updates(c) :
        /\ inbound[c] = 0 \/ (c = First /\ ~ignored(u))
        /\ handle_text_message(u)
    \/ \E j \in jobs : combo_delivery_beatriz_job(j) /\ nones' = nones
    \/ \E j \in jobs : upsell_sequence_job(j) /\ nones' = nones
    \/ \E j \in jobs : group_check_job(j) /\ nones' = nones

PairSpec == PairInit /\ [][PairNext]_vars

\* the inbound-message handler alone, for both conversations, with and
\* without a job queue (the combo jobs it schedules, due
\* AUTO_REPLY_DELAY_SECONDS later, are not yet due)
GuardInit ==
    /\ InitWith({AllAssets(FALSE)}, Chats, MaxMsgs)
    /\ voice = VoiceIdle /\ member = MemberIdle

GuardNext ==
    \/ \E c \in Chats : \E u \in Updates(c) : handle_text_message(u)
    \/ \E h \in handlers : handle_text_message_reply(h)

GuardSpec == GuardInit /\ [][GuardNext]_vars

\* one call of _safe_send_voice_prefer, for every voice reference (a str
\* handle or not) and every behaviour of the gateway calls it makes
VoiceInputs ==
    [isStr : BOOLEAN, o1 : Outcome, oFile : FileOutcome, o2 : Outcome,
     o3 : Outcome, at : {"idle"}, calls : {<<>>}, result : {"-"}, by : {"-"}]

send_voice_prefer_call ==
    LET v == safe_send_voice_prefer(voice.isStr, voice.o1, voice.oFile,
                                    voice.o2, voice.o3)
    IN  /\ voice.at = "idle"
        /\ voice' = [voice EXCEPT !.at = "returned", !.calls = v.calls,
                                  !.result = v.result, !.by = v.by]
        /\ UNCHANGED <<config, guard, handlers, jobs, sent, history, nsched,
                       done, outcomes, raised, member>>

VoiceInit ==
    /\ InitWith({AllAssets(FALSE)}, {}, 0)
    /\ job_queue
    /\ voice \in VoiceInputs
    /\ member = MemberIdle

VoiceNext == send_voice_prefer_call

VoiceSpec == VoiceInit /\ [][VoiceNext]_vars

\* one answer of get_chat_member as a run of _group_check_job classifies it
\* and acts on it, for every answer and every value of the attempt counter
\* of a run that queries
MemberInputs ==
    [m : MemberOutcome, attempt : 1..AttemptCap, at : {"idle"},
     is_member : {FALSE}, todo : {"-"}]

classify_member ==
    /\ member.at = "idle"
    /\ member' = [member EXCEPT !.at = "classified",
                                !.is_member = is_member(member.m),
                                !.todo = after_query(member.m, member.attempt)]
    /\ UNCHANGED <<config, guard, handlers, jobs, sent, history, nsched, done,
                   outcomes, raised, voice>>

MemberInit ==
    /\ InitWith({AllAssets(FALSE)}, {}, 0)
    /\ job_queue
    /\ voice = VoiceIdle
    /\ member \in MemberInputs

MemberNext == classify_member

MemberSpec == MemberInit /\ [][MemberNext]_vars

\* ------------------------------------------------------------------- claims

Combo == "_combo_delivery_beatriz_job"
Upsell == "_upsell_sequence_job"
GroupCheck == "_group_check_job"

\* the jobs of conversation c with callback fn that are scheduled or running
Live(c, fn) == {j \in jobs : j.chat_id = c /\ j.fn = fn}

\* C1 (as stated): after one or more private messages of non-bot senders of a
\* conversation have been handled, the combo delivery job of that
\* conversation has been scheduled exactly once.
C1_ScheduledExactlyOnce ==
    \A c \in Chats : eligible[c] >= 1 => nsched[c][Combo] = 1

\* C1 (amended): after one or more private messages of non-bot senders of a
\* conversation have been handled, exactly one of them, the first, has been
\* admitted and the conversation is marked dispatched; the combo delivery job
\* has been scheduled exactly once when the handler has a job queue and never
\* when it has none; and a dispatch flag, once set, is never cleared.
C1_AdmittedExactlyOnce ==
    /\ [](\A c \in Chats : eligible[c] >= 1 =>
            /\ admitted[c] = 1
            /\ already_dispatched(c)
            /\ nsched[c][Combo] = (IF job_queue THEN 1 ELSE 0))
    /\ [][\A c \in Chats :
            /\ chat_data[c].combo_dispatched => chat_data'[c].combo_dispatched
            /\ c \in COMBO_DISPATCHED_CHATS => c \in COMBO_DISPATCHED_CHATS']_vars

\* a second private message of the conversation was handled and rejected
C1_Witness ==
    \E c \in Chats :
        /\ job_queue
        /\ eligible[c] >= 2
        /\ admitted[c] = 1
        /\ nsched[c][Combo] = 1

\* C2: at most one execution of the handler passes the dispatch guard of a
\* conversation, and an execution that passed it has set the flags before it
\* is suspended: whenever an admitted execution is suspended, or the job it
\* scheduled exists, the conversation is already marked dispatched, so an
\* execution that interleaves with it is rejected.
C2_GuardIsOneStep ==
    \A c \in Chats :
        /\ admitted[c] <= 1
        /\ Cardinality({h \in handlers : h.chat_id = c})
            + Cardinality(Live(c, Combo)) <= 1
        /\ (\E h \in handlers : h.chat_id = c) => already_dispatched(c)
        /\ Live(c, Combo) # {} => already_dispatched(c)

\* a second update of the conversation was handled while the admitted
\* execution was suspended in its sleep
C2_Witness ==
    \E h \in handlers :
        /\ eligible[h.chat_id] >= 2
        /\ admitted[h.chat_id] = 1

\* C3 (as stated): no run of the polling job queries membership with an
\* attempt counter above GROUP_CHECK_MAX_ATTEMPTS, whatever the membership
\* queries answered (runs in which a send raised are left aside).
C3_NoSixthCheck ==
    \A j \in jobs :
        (j.fn = GroupCheck /\ j.at = "query" /\ raised[j.chat_id][GroupCheck] = 0)
            => j.attempt <= GROUP_CHECK_MAX_ATTEMPTS

\* C4 (as stated): a run of the polling job that does work has
\* 1 <= attempt <= GROUP_CHECK_MAX_ATTEMPTS, and a polling job that is still
\* scheduled after a run has an attempt counter below
\* GROUP_CHECK_MAX_ATTEMPTS: the run that reached it removed the job,
\* whatever its membership query answered (runs in which a send raised are
\* left aside).
C4_AttemptInRange ==
    \A j \in jobs :
        (j.fn = GroupCheck /\ raised[j.chat_id][GroupCheck] = 0) =>
            /\ j.at # "wait" =>
                (1 <= j.attempt /\ j.attempt <= GROUP_CHECK_MAX_ATTEMPTS)
            /\ (j.at = "wait" /\ ~j.removed) =>
                j.attempt < GROUP_CHECK_MAX_ATTEMPTS

\* the stage a job stands for: ComboScheduled 1, ComboDelivered 2 (the upsell
\* is pending), UpsellSent 3 (polling scheduled, no check yet),
\* PollingMembership 4, and 5 for the removed job that is sending remarketing
JobStage(j) ==
    IF j.fn = Combo THEN 1
    ELSE IF j.fn = Upsell THEN 2
    ELSE IF j.removed THEN 5
    ELSE IF j.attempt = 0 THEN 3
    ELSE 4

\* the implied stage of a conversation, 0 for Idle and 5 for Approved or
\* RemarketingSent: the earliest stage one of its jobs stands for, and with no
\* job the stage its last run left it in
Stage(c) ==
    LET live == {JobStage(j) : j \in {k \in jobs : k.chat_id = c}}
    IN  IF live # {} THEN CHOOSE r \in live : \A x \in live : r <= x
        ELSE IF ~already_dispatched(c) THEN 0
        ELSE IF done[c][GroupCheck] + raised[c][GroupCheck] > 0 THEN 5
        ELSE IF done[c][Upsell] > 0 THEN 3
        ELSE IF done[c][Combo] > 0 THEN 2
        ELSE 1

Polling(c) == \E j \in jobs : j.fn = GroupCheck /\ j.chat_id = c /\ ~j.removed

\* C6 (as stated): with every due job invoked and every awaited call
\* returning, a polling loop that was started is eventually removed from the
\* job queue.
C6_PollingTerminates ==
    \A c \in Chats : Polling(c) ~> ~Polling(c)

\* the calls of the batch of photos (single "send_photo") or of videos
\* (single "send_video") that the combo job of conversation c has made
BatchCalls(c, single) ==
    LET OfBatch(e) == e.by = Combo /\ e.what = single
    IN  SelectSeq(sent[c], OfBatch)

\* the grouping law for one batch whose configured slots are slots
BatchLaw(c, single, slots) ==
    LET k == Cardinality(slots)
        b == BatchCalls(c, single)
    IN  /\ Len(b) <= 1
        /\ k = 0 => Len(b) = 0
        /\ Len(b) = 1 =>
            /\ (b[1].call = "send_media_group") <=> (k >= 2)
            /\ (b[1].call = single) <=> (k = 1)
            /\ Len(b[1].media) = k
            /\ {b[1].media[i] : i \in 1..Len(b[1].media)} = slots
        /\ done[c][Combo] >= 1 => Len(b) = (IF k = 0 THEN 0 ELSE 1)

\* C7: with k configured photos the combo delivery job makes one album call
\* holding all k photos iff k >= 2, one single-photo call iff k = 1 and no
\* photo call iff k = 0, and a job that completed has made that call; the
\* same for the configured videos.
C7_GroupingThreshold ==
    \A c \in Chats :
        /\ BatchLaw(c, "send_photo", assets.photos)
        /\ BatchLaw(c, "send_video", assets.videos)

\* a combo job completed with two or more photos and exactly one video
C7_Witness ==
    \E c \in Chats :
        /\ done[c][Combo] = 1
        /\ Cardinality(assets.photos) >= 2
        /\ Cardinality(assets.videos) = 1
        /\ Len(BatchCalls(c, "send_photo")) = 1
        /\ Len(BatchCalls(c, "send_video")) = 1

\* the positions of call x in the calls of the voice-preferring send
At(x) == {i \in 1..Len(voice.calls) : voice.calls[i] = x}

Rejected == {"Forbidden", "BadRequest"}

\* the order of the fallback chain in the call that has returned: with a
\* handle that resolves to a file path, a voice send by URL is made before any
\* audio send; when that voice send fails too, the audio send is made; and
\* whenever the audio send succeeds, its message is what the call returns
FallbackOrder ==
    /\ (voice.isStr /\ voice.oFile = "path") =>
        /\ At("send_voice_url") # {}
        /\ \A i \in At("send_voice_url") : \A k \in At("send_audio") : i < k
        /\ voice.o2 = "ok" => (voice.result = "Message" /\ At("send_audio") = {})
        /\ voice.o2 # "ok" => At("send_audio") # {}
    /\ (At("send_audio") # {} /\ voice.o3 = "ok") =>
        (voice.result = "Message" /\ voice.by = "send_audio")

\* C8 (as stated): when the native voice send fails, in whatever way, and the
\* voice reference is a handle that resolves to a file path, a voice send by
\* URL is made before any audio send; when both voice sends fail the audio
\* send is made, and whenever the audio send succeeds its message is returned.
C8_VoiceFallbackOrder ==
    (voice.at = "returned" /\ voice.o1 # "ok") => FallbackOrder

\* the part of C8 that the code keeps: the same order when the native voice
\* send is rejected with Forbidden or BadRequest
FallbackOrderOnRejection ==
    (voice.at = "returned" /\ voice.o1 \in Rejected) => FallbackOrder

\* C9: one call of the voice-preferring send makes each of the native voice
\* send, the voice send by URL and the audio send at most once, and when the
\* audio send is rejected (Forbidden or BadRequest) the call returns None and
\* does not raise.
C9_EachLevelOnce ==
    voice.at = "returned" =>
        /\ \A x \in {"send_voice", "send_voice_url", "send_audio"} :
                Cardinality(At(x)) <= 1
        /\ (At("send_audio") # {} /\ voice.o3 \in Rejected) =>
                voice.result = "None"

\* all three levels were tried and the last one was rejected
C9_Witness ==
    /\ voice.at = "returned"
    /\ voice.calls = <<"send_voice", "get_file", "send_voice_url", "send_audio">>
    /\ voice.o3 \in Rejected
    /\ voice.result = "None"

\* the calls a job function has made for conversation c, in order
CallsBy(c, fn) ==
    LET By(e) == e.by = fn
        b == SelectSeq(sent[c], By)
    IN  [i \in 1..Len(b) |-> Call(b[i].call, b[i].what, b[i].media)]

\* C10: a send that the gateway rejects (Forbidden or BadRequest) returns
\* None and does not end the run of its job: a run ends by an exception only
\* on another kind of error; every scheduled run of the combo and of the
\* upsell job is pending, running, completed or ended by such an exception;
\* a combo run that completed has made every configured call in order and
\* scheduled the upsell job, and an upsell run that completes has made every
\* configured call and, when the user_id is known, starts the polling job.
C10_RejectionsDoNotAbort ==
    /\ [](\A c \in Chats :
            /\ last[c].outcome \in Rejected => last[c].result = "None"
            /\ \A f \in {Combo, Upsell} :
                nsched[c][f] = Cardinality(Live(c, f)) + done[c][f] + raised[c][f]
            /\ done[c][Combo] >= 1 =>
                /\ CallsBy(c, Combo) = ComboSteps(assets)
                /\ nsched[c][Upsell] = done[c][Combo]
            /\ done[c][Upsell] >= 1 => CallsBy(c, Upsell) = UpsellSteps(assets))
    /\ [][\A c \in Chats :
            /\ \A f \in JobFns :
                raised'[c][f] > raised[c][f] => last'[c].outcome \notin Rejected
            /\ \A j \in Live(c, Upsell) :
                (done'[c][Upsell] > done[c][Upsell] /\ j.user_id # NoId) =>
                    \E g \in Live(c, GroupCheck)' :
                        g.at = "wait" /\ g.attempt = 0]_vars

\* every send of the combo and of the upsell job was rejected, with every
\* asset configured, and the polling job is scheduled all the same
C10_Witness ==
    \E c \in Chats :
        /\ assets = AllAssets(TRUE)
        /\ Len(sent[c]) = Len(ComboSteps(assets)) + Len(UpsellSteps(assets))
        /\ nones[c] = Len(sent[c])
        /\ \E g \in Live(c, GroupCheck) : g.at = "wait" /\ g.attempt = 0

\* C11 (as stated): no run of a funnel job ends by an exception of one of its
\* gateway calls: whatever a send or a membership query does, the call gives
\* the job a result and the run goes on to its remaining steps.
C11_ErrorsIsolated ==
    \A c \in Chats :
        /\ last[c].result # "raised"
        /\ \A f \in JobFns : raised[c][f] = 0

\* the calls the polling job (approval, remarketing) has made for c
PollingCalls(c) == CallsBy(c, GroupCheck)

\* C12: the upsell job that completes starts the polling loop iff its payload
\* holds a user_id: with one, exactly one polling job is created, with attempt
\* 0 and that user_id; with none, no polling job is created.  Nothing else
\* creates a polling job, so a polling job always has a user_id, and without
\* a polling job neither the approval nor the remarketing message is sent.
C12_PollingIffUserId ==
    /\ [](\A c \in Chats :
            /\ nsched[c][GroupCheck] <= 1
            /\ \A j \in Live(c, GroupCheck) : j.user_id # NoId
            /\ nsched[c][GroupCheck] = 0 =>
                (Live(c, GroupCheck) = {} /\ PollingCalls(c) = <<>>))
    /\ [][\A c \in Chats :
            /\ nsched'[c][GroupCheck] # nsched[c][GroupCheck] =>
                done'[c][Upsell] > done[c][Upsell]
            /\ \A j \in Live(c, Upsell) :
                done'[c][Upsell] > done[c][Upsell] =>
                    IF j.user_id # NoId
                    THEN /\ nsched'[c][GroupCheck] = nsched[c][GroupCheck] + 1
                         /\ Live(c, GroupCheck)' \ Live(c, GroupCheck) =
                                {NewJob(GroupCheck, c, j.user_id,
                                        j.business_connection_id, j.mid)}
                    ELSE /\ nsched'[c][GroupCheck] = nsched[c][GroupCheck]
                         /\ Live(c, GroupCheck)' = Live(c, GroupCheck)]_vars

\* the upsell job of a conversation whose payload has no user_id completed,
\* and the conversation has no polling job
C12_Witness ==
    \E c \in Chats :
        /\ job_queue
        /\ done[c][Upsell] = 1
        /\ jobs = {}
        /\ nsched[c][GroupCheck] = 0

\* the approval messages the polling job has sent, or tried to send, to c
Approvals(c) ==
    LET IsApproval(e) == e.by = GroupCheck /\ e.what = "approved"
    IN  Len(SelectSeq(sent[c], IsApproval))

\* a run of the polling job of c is querying membership or acting on the answer
Checking(c) == \E j \in Live(c, GroupCheck) : j.at \in {"query", "approve"}

\* at most one approval, and no membership check after it
ApprovedOnce(c) ==
    /\ Approvals(c) <= 1
    /\ Approvals(c) = 1 => ~Checking(c)

\* C13 (as stated): for every conversation at most one approval message is
\* ever sent, and once it has been sent no run of the polling job checks
\* membership again.
C13_SingleApproval ==
    \A c \in Chats : ApprovedOnce(c)

\* the part of C13 that the code keeps: the same, as long as no send of the
\* polling job has raised
SingleApprovalUnlessRaised ==
    \A c \in Chats : raised[c][GroupCheck] = 0 => ApprovedOnce(c)

\* the calls of _send_remarketing made for conversation c, in order
RemarketingCalls(c) ==
    LET IsRemarketing(e) == e.by = GroupCheck /\ e.what # "approved"
        b == SelectSeq(sent[c], IsRemarketing)
    IN  [i \in 1..Len(b) |-> Call(b[i].call, b[i].what, b[i].media)]

\* s is an initial part of t
IsPrefix(s, t) == Len(s) <= Len(t) /\ s = SubSeq(t, 1, Len(s))

\* the polling jobs of c whose run has called schedule_removal()
Escalating(c) == {j \in Live(c, GroupCheck) : j.removed}

\* C14: remarketing is sent at most once per conversation (its calls are one
\* pass through the steps of _send_remarketing); it starts only in a run of
\* the polling job whose membership query did not end in Forbidden or in a
\* member and whose attempt counter has reached GROUP_CHECK_MAX_ATTEMPTS,
\* never one with a lower counter; and that run removes the polling job
\* before the first remarketing call, so no later run can start it again.
C14_RemarketingOnce ==
    /\ [](\A c \in Chats :
            /\ IsPrefix(RemarketingCalls(c), RemarketingSteps(assets))
            /\ RemarketingCalls(c) # <<>> => ~Polling(c)
            /\ \A j \in Escalating(c) :
                /\ j.attempt >= GROUP_CHECK_MAX_ATTEMPTS
                /\ j.answer \in {"ChatMember", "BadRequest", "Other"}
                /\ j.at = "call")
    /\ [][\A c \in Chats :
            (Escalating(c) = {} /\ Escalating(c)' # {}) =>
                /\ RemarketingCalls(c) = <<>>
                /\ ~Polling(c)'
                /\ \E j \in Live(c, GroupCheck) :
                    /\ j.at = "query"
                    /\ j.attempt >= GROUP_CHECK_MAX_ATTEMPTS]_vars

\* remarketing ran to its end, with every remarketing asset configured, for
\* a conversation that was never approved
C14_Witness ==
    \E c \in Chats :
        /\ assets = AllAssets(TRUE)
        /\ RemarketingCalls(c) = RemarketingSteps(assets)
        /\ done[c][GroupCheck] = 1
        /\ Approvals(c) = 0
        /\ jobs = {}

\* the run that removed the polling job of c is awaiting the send of the
\* second remarketing audio
AwaitingSecondAudio(c) ==
    \E j \in Escalating(c) :
        /\ j.at = "call"
        /\ RemarketingSteps(assets)[j.step].what = "AUDIO_REMARKETING_UPSELL_2"

\* the send of the second remarketing audio to c has been made
SecondAudioSent(c) ==
    \E i \in 1..Len(RemarketingCalls(c)) :
        RemarketingCalls(c)[i].what = "AUDIO_REMARKETING_UPSELL_2"

\* the calls made for conversation c while conversation d was in its pause
DuringPauseOf(d, c) == {i \in 1..Len(sent[c]) : d \in sent[c][i].paused}

\* C15: the pause before the second remarketing audio is a suspension of the
\* run that removed the polling job, not a job of the queue: while a
\* conversation pauses, its polling job is already removed and nothing is
\* scheduled for it; the pause can only end with that same run going on to
\* the send of the second audio; and an escalation that ended without an
\* exception, with a second audio configured, has made that send.
C15_PauseIsSuspension ==
    /\ [](\A c \in Chats :
            /\ Pausing(c) => (~Polling(c) /\ Live(c, GroupCheck) = Escalating(c))
            /\ (/\ assets.AUDIO_REMARKETING_UPSELL_2
                /\ RemarketingCalls(c) # <<>>
                /\ Live(c, GroupCheck) = {}
                /\ raised[c][GroupCheck] = 0) => SecondAudioSent(c))
    /\ [][\A c \in Chats :
            Pausing(c) =>
                /\ nsched'[c] = nsched[c]
                /\ Pausing(c)' \/ AwaitingSecondAudio(c)']_vars

\* with every due job invoked and every awaited call returning, a pause that
\* began is followed by the send of the second audio (checked under FairSpec)
PauseEndsInSecondAudio ==
    \A c \in Chats : Pausing(c) ~> SecondAudioSent(c)

\* the second audio was sent although the polling job had been removed before
\* the pause, and a job of another conversation made a call during that pause
C15_Witness ==
    \E c \in Chats : \E d \in Chats \ {c} :
        /\ SecondAudioSent(c)
        /\ Live(c, GroupCheck) = {}
        /\ DuringPauseOf(c, d) # {}

\* C16: a run of the polling job whose membership query raises Forbidden has
\* counted its attempt when it was invoked, and the answer changes nothing
\* else: the job goes back to waiting for the next interval with the same
\* counter, it is not removed, no message is sent and nothing is scheduled,
\* completed or escalated.
C16_ForbiddenRoundOnlyCounts ==
    [][\A c \in Chats : \A j \in Live(c, GroupCheck) :
        /\ (j.at = "wait" /\ Live(c, GroupCheck)' # Live(c, GroupCheck)) =>
            \A k \in Live(c, GroupCheck)' :
                k.attempt = (IF j.attempt < AttemptCap THEN j.attempt + 1
                             ELSE j.attempt)
        /\ (/\ j.at = "query"
            /\ Live(c, GroupCheck)' # Live(c, GroupCheck)
            /\ \E k \in Live(c, GroupCheck)' : k.answer = "Forbidden") =>
            /\ Live(c, GroupCheck)' =
                    {[j EXCEPT !.at = "wait", !.answer = "Forbidden"]}
            /\ Polling(c)'
            /\ sent' = sent
            /\ UNCHANGED <<nsched, done, raised, last, nones>>]_vars

\* a round ended in Forbidden at the last counted attempt: the job waits for
\* its next interval, and the polling job has sent nothing
C16_Witness ==
    \E c \in Chats : \E j \in Live(c, GroupCheck) :
        /\ j.at = "wait" /\ ~j.removed
        /\ j.answer = "Forbidden"
        /\ j.attempt = GROUP_CHECK_MAX_ATTEMPTS
        /\ PollingCalls(c) = <<>>

\* C17: an answer of the membership query counts as member iff it is a chat
\* member whose status is member, administrator or creator or whose
\* is_member flag is set, and only such an answer is approved; every other
\* status and every BadRequest counts as not member, and the run that got it
\* is a counted attempt: it escalates to remarketing when the counter has
\* reached GROUP_CHECK_MAX_ATTEMPTS and retries at the next interval before.
C17_MembershipClassification ==
    member.at = "classified" =>
        LET m == member.m
            counts_as_member ==
                /\ m.kind = "ChatMember"
                /\ \/ m.status = "member"
                   \/ m.status = "administrator"
                   \/ m.status = "creator"
                   \/ m.is_member
        IN  /\ member.is_member <=> counts_as_member
            /\ (member.todo = "approve") <=> counts_as_member
            /\ (~counts_as_member /\ m.kind \in {"ChatMember", "BadRequest"}) =>
                member.todo =
                    (IF member.attempt >= GROUP_CHECK_MAX_ATTEMPTS
                     THEN "remarketing" ELSE "retry")

\* a restricted user whose is_member flag is set was classified as a member
C17_Witness ==
    /\ member.at = "classified"
    /\ member.m.kind = "ChatMember"
    /\ member.m.status = "restricted"
    /\ member.m.is_member
    /\ member.is_member
    /\ member.todo = "approve"

\* one of the dispatch flags of conversation c is set
Dispatched(c) == chat_data[c].combo_dispatched \/ c \in COMBO_DISPATCHED_CHATS

\* the update comes from a private chat, has a message, and its sender is
\* not a bot
FromPrivateNonBot(u) ==
    u.message /\ u.chat /\ u.chat_type = "private" /\ u.from_user # "bot"

\* C18: an inbound event that is not a message of a private chat from a
\* non-bot sender is ignored: handling it changes neither the dispatch flags
\* nor the job queue nor any suspended handler; so a conversation none of
\* whose messages was admitted is not marked dispatched, and the first
\* private message of a non-bot sender that follows is admitted and marks it.
C18_GuardOnlyForPrivateNonBot ==
    /\ [](\A c \in Chats : admitted[c] = 0 => ~Dispatched(c))
    /\ [][\A c \in Chats : inbound'[c] # inbound[c] =>
            \A u \in Updates(c) :
                handle_text_message(u) =>
                    IF ~FromPrivateNonBot(u)
                    THEN UNCHANGED <<chat_data, COMBO_DISPATCHED_CHATS, jobs,
                                     handlers, admitted, nsched, sent>>
                    ELSE ~Dispatched(c) =>
                            /\ admitted'[c] = admitted[c] + 1
                            /\ Dispatched(c)']_vars

\* the first event of the conversation was ignored and the message that
\* followed it, the second, was admitted and scheduled the combo job
C18_Witness ==
    \E c \in Chats : \E j \in Live(c, Combo) :
        /\ j.mid = 2
        /\ inbound[c] = 2
        /\ eligible[c] = 1
        /\ admitted[c] = 1
        /\ Dispatched(c)

\* the place of a sender of calls in the funnel
StageOf(by) ==
    IF by = Combo THEN 1
    ELSE IF by = Upsell THEN 2
    ELSE IF by = GroupCheck THEN 3
    ELSE 0

\* the what of the latest call that fn has made for c, "-" when it made none
LastWhat(c, fn) ==
    LET b == CallsBy(c, fn)
    IN  IF b = <<>> THEN "-" ELSE b[Len(b)].what

\* the upsell stage of c has begun: its job is scheduled or has made a call
UpsellBegun(c) == nsched[c][Upsell] > 0 \/ CallsBy(c, Upsell) # <<>>

\* the polling stage of c has begun: its job is scheduled or has made a call
PollingBegun(c) == nsched[c][GroupCheck] > 0 \/ CallsBy(c, GroupCheck) # <<>>

\* C19: the stages of a conversation run one after the other: in the order
\* of its outbound calls every call of the combo job comes before every call
\* of the upsell job, and these before every call of the polling job; the
\* upsell job is scheduled only by the combo run that completes, after its
\* closing step returned, and the polling job only by the upsell run that
\* completes, after its keyboard message returned, so no upsell message is
\* sent before the closing step and no membership check made before the
\* keyboard.
C19_StagesInSequence ==
    /\ [](\A c \in Chats :
            /\ \A i \in 1..Len(sent[c]) : \A k \in i..Len(sent[c]) :
                StageOf(sent[c][i].by) <= StageOf(sent[c][k].by)
            /\ UpsellBegun(c) =>
                /\ Live(c, Combo) = {}
                /\ done[c][Combo] = 1
                /\ LastWhat(c, Combo) \in {"closing", "AUDIO_POS_ENTREGA_COMBO"}
            /\ PollingBegun(c) =>
                /\ Live(c, Upsell) = {}
                /\ done[c][Upsell] = 1
                /\ LastWhat(c, Upsell) = "vip_keyboard")
    /\ [][\A c \in Chats :
            /\ nsched'[c][Upsell] # nsched[c][Upsell] =>
                done'[c][Combo] = done[c][Combo] + 1
            /\ nsched'[c][GroupCheck] # nsched[c][GroupCheck] =>
                done'[c][Upsell] = done[c][Upsell] + 1]_vars

\* a membership check is under way after the combo and the upsell job made
\* every call of theirs, with every asset configured
C19_Witness ==
    \E c \in Chats : \E j \in Live(c, GroupCheck) :
        /\ assets = AllAssets(TRUE)
        /\ j.at = "query"
        /\ LastWhat(c, Combo) = "AUDIO_POS_ENTREGA_COMBO"
        /\ LastWhat(c, Upsell) = "vip_keyboard"
        /\ Len(sent[c]) = Len(ComboSteps(assets)) + Len(UpsellSteps(assets))

\* the place of a call of the combo job in its fixed order
ComboRank(what) ==
    CASE what = "apology" -> 1
      [] what = "AUDIO_ENTREGA_COMBO" -> 2
      [] what = "send_photo" -> 3
      [] what = "send_video" -> 4
      [] what \in {"AUDIO_POS_ENTREGA_COMBO", "closing"} -> 5
      [] OTHER -> 0

\* the ranks of the steps that the configuration a asks for
ComboRanksDue(a) ==
    {1, 5} \cup (IF a.AUDIO_ENTREGA_COMBO THEN {2} ELSE {})
           \cup (IF a.photos # {} THEN {3} ELSE {})
           \cup (IF a.videos # {} THEN {4} ELSE {})

\* C20: for every configuration of the combo assets the calls of the combo
\* job are made in the order apology, intro voice, photos, videos, closing,
\* each at most once; a step is made iff it is configured (the apology and
\* the closing always), none is made while a configured earlier one is
\* missing; the closing step is the closing audio when it is configured and
\* the closing text otherwise; and the job that made them all completes.
C20_ComboStepOrder ==
    \A c \in Chats :
        LET b == CallsBy(c, Combo)
            made == {ComboRank(b[i].what) : i \in 1..Len(b)}
        IN  /\ \A i \in 1..Len(b) : ComboRank(b[i].what) \in ComboRanksDue(assets)
            /\ \A i \in 1..Len(b) : \A k \in (i + 1)..Len(b) :
                    ComboRank(b[i].what) < ComboRank(b[k].what)
            /\ \A r \in made : \A q \in ComboRanksDue(assets) : q < r => q \in made
            /\ \A i \in 1..Len(b) :
                /\ b[i].what = "closing" => ~assets.AUDIO_POS_ENTREGA_COMBO
                /\ b[i].what = "AUDIO_POS_ENTREGA_COMBO" =>
                        assets.AUDIO_POS_ENTREGA_COMBO
                /\ ComboRank(b[i].what) \in {2, 5} /\ b[i].what # "closing" =>
                        b[i].call = "voice_prefer"
            /\ done[c][Combo] = 1 <=>
                    (made = ComboRanksDue(assets) /\ raised[c][Combo] = 0)

\* the combo job completed with neither intro voice nor photos nor closing
\* audio configured: apology, videos, closing text
C20_Witness ==
    \E c \in Chats :
        /\ ~assets.AUDIO_ENTREGA_COMBO
        /\ assets.photos = {}
        /\ assets.videos # {}
        /\ ~assets.AUDIO_POS_ENTREGA_COMBO
        /\ done[c][Combo] = 1
        /\ Len(CallsBy(c, Combo)) = 3
        /\ LastWhat(c, Combo) = "closing"

\* the payload triple of a job
Triple(j) == <<j.chat_id, j.user_id, j.business_connection_id>>

\* the triples in the payloads of the jobs of conversation c
Triples(c) == {Triple(j) : j \in {k \in jobs : k.chat_id = c}}

\* the calls that funnel jobs have made for conversation c
JobCalls(c) == {i \in 1..Len(sent[c]) : sent[c][i].by \in JobFns}

\* C21: the combo job is scheduled with the chat_id, the user_id (None when
\* the update has no user) and the business_connection_id of the message
\* that was admitted; the jobs that follow it in the conversation carry the
\* same triple, so every job of a conversation holds the business connection
\* id kept at admission; and every call of a funnel job is made with the
\* business_connection_id of that payload, to the chat of that payload.
C21_TripleCarried ==
    /\ [](\A c \in Chats :
            /\ Cardinality(Triples(c)) <= 1
            /\ \A j \in jobs : j.chat_id = c =>
                /\ admitted[c] = 1
                /\ j.user_id \in {NoId, c}
                /\ j.business_connection_id =
                        chat_data[c].business_connection_id
            /\ \A i \in JobCalls(c) :
                /\ admitted[c] = 1
                /\ sent[c][i].business_connection_id =
                        chat_data[c].business_connection_id)
    /\ [][\A c \in Chats :
            /\ Triples(c) # {} => Triples(c)' \subseteq Triples(c)
            /\ (Triples(c) = {} /\ Triples(c)' # {}) =>
                /\ admitted'[c] = admitted[c] + 1
                /\ \A u \in Updates(c) : handle_text_message(u) =>
                    Triples(c)' =
                        {<<c, IF u.from_user = "None" THEN NoId ELSE c,
                           u.business_connection_id>>}]_vars

\* a conversation admitted with a user and a business connection id reached
\* its membership check, every call of its jobs made with that id
C21_Witness ==
    \E c \in Chats : \E j \in Live(c, GroupCheck) :
        /\ j.at = "query"
        /\ Triple(j) = <<c, c, "bc">>
        /\ Cardinality(JobCalls(c)) >= 4
        /\ \A i \in JobCalls(c) : sent[c][i].business_connection_id = "bc"

\* the jobs of conversation c
JobsOf(c) == {j \in jobs : j.chat_id = c}

\* everything the handler and the jobs keep about conversation c
Conversation(c) ==
    <<chat_data[c], c \in COMBO_DISPATCHED_CHATS, JobsOf(c), sent[c],
      inbound[c], eligible[c], admitted[c], nsched[c], done[c], raised[c],
      last[c], nones[c]>>

\* C22: in every interleaving of two conversations, a conversation whose
\* private messages of non-bot senders have been handled was admitted exactly
\* once and its combo job scheduled once, whatever the other conversation is
\* doing; and every step (an execution of the handler up to its await, or a
\* step of a job, which always changes that job's own record) changes one
\* conversation only: the jobs of the other (their presence, their payloads,
\* their attempt counters), its flags and its messages stay as they were.
C22_ConversationsIndependent ==
    /\ [](\A c \in Chats :
            /\ admitted[c] <= 1
            /\ eligible[c] >= 1 => admitted[c] = 1 /\ nsched[c][Combo] = 1
            /\ \A j \in jobs : j.chat_id \in Chats)
    /\ [][\A c \in Chats : \A d \in Chats \ {c} :
            Conversation(c)' # Conversation(c) =>
                Conversation(d)' = Conversation(d)]_vars

\* both conversations are polling at once, one in its check with a higher
\* attempt counter than the job of the other, after a second message of one
\* of them was rejected
C22_Witness ==
    \E c \in Chats : \E d \in Chats \ {c} :
        \E j \in Live(c, GroupCheck) : \E k \in Live(d, GroupCheck) :
            /\ j.at = "query"
            /\ j.attempt >= 3
            /\ k.attempt = 1
            /\ admitted[c] = 1 /\ admitted[d] = 1
            /\ \E e \in Chats : eligible[e] >= 2

\* the conversation c has been sent the approval and the remarketing offer
BothOutcomes(c) == Approvals(c) >= 1 /\ RemarketingCalls(c) # <<>>

\* the polling job of c made no call after an approval, and none beyond the
\* steps of one remarketing offer
NothingAfterOutcome(c) ==
    /\ \A i \in 1..Len(sent[c]) :
        (sent[c][i].by = GroupCheck /\ sent[c][i].what = "approved") =>
            \A k \in (i + 1)..Len(sent[c]) : sent[c][k].by # GroupCheck
    /\ IsPrefix(RemarketingCalls(c), RemarketingSteps(assets))
    /\ RemarketingCalls(c) # <<>> => ~Polling(c)

\* C23 (as stated): in every reachable state a conversation has been sent the
\* approval message or the remarketing offer but not both, and after either
\* the polling job makes no further call.
C23_TerminalOutcomesExclusive ==
    \A c \in Chats : ~BothOutcomes(c) /\ NothingAfterOutcome(c)

\* the part of C23 that the code keeps: the same, as long as no send of the
\* polling job has raised
OutcomesExclusiveUnlessRaised ==
    \A c \in Chats : raised[c][GroupCheck] = 0 =>
        ~BothOutcomes(c) /\ NothingAfterOutcome(c)

\* an approval whose send raised was followed by the remarketing offer
ApprovalThenRemarketing ==
    \E c \in Chats :
        /\ BothOutcomes(c)
        /\ raised[c][GroupCheck] = 1
        /\ RemarketingCalls(c) = RemarketingSteps(assets)
        /\ jobs = {}

\* the executions of the handler for c suspended in their sleep
Sleeping(c) == {h \in handlers : h.chat_id = c}

\* the gateway calls made for c, in order
CallNames(c) == [i \in 1..Len(sent[c]) |-> sent[c][i].call]

\* C24: when the handler has no job queue, a conversation whose private
\* messages of non-bot senders have been handled was admitted once and is
\* marked dispatched in its chat_data and in COMBO_DISPATCHED_CHATS; no job
\* is ever scheduled, so no funnel job runs; nothing is sent while the admitted
\* execution sleeps, and all that is ever sent is the apology, by the handler,
\* in one pass of _safe_reply_text (reply_text, then send_message only after
\* a TypeError); and a message handled once the conversation is marked is
\* rejected: it admits nothing and starts no further execution.
C24_NoJobQueue ==
    /\ [](~job_queue => \A c \in Chats :
            /\ jobs = {}
            /\ \A f \in JobFns : nsched[c][f] = 0 /\ done[c][f] = 0
            /\ eligible[c] >= 1 =>
                /\ admitted[c] = 1
                /\ chat_data[c].combo_dispatched
                /\ c \in COMBO_DISPATCHED_CHATS
            /\ Cardinality(Sleeping(c)) <= 1
            /\ Sleeping(c) # {} => sent[c] = <<>>
            /\ sent[c] # <<>> => admitted[c] = 1
            /\ \A i \in 1..Len(sent[c]) :
                /\ sent[c][i].by = "handle_text_message"
                /\ sent[c][i].what = "apology"
            /\ CallNames(c) \in
                {<<>>, <<"reply_text">>, <<"reply_text", "send_message">>})
    /\ [][\A c \in Chats :
            (~job_queue /\ admitted[c] = 1) =>
                /\ admitted'[c] = 1
                /\ Sleeping(c)' \subseteq Sleeping(c)
                /\ (sent'[c] # sent[c] => Sleeping(c)' # Sleeping(c))]_vars

\* without a job queue, the first message was admitted, a second was handled
\* and rejected, and the apology was sent after the sleep
C24_Witness ==
    \E c \in Chats :
        /\ ~job_queue
        /\ eligible[c] >= 2
        /\ admitted[c] = 1
        /\ c \in COMBO_DISPATCHED_CHATS
        /\ Sleeping(c) = {}
        /\ CallNames(c) = <<"reply_text">>
        /\ jobs = {}

====
